---- MODULE Spec2Model ----
(***************************************************************************)
(* PostOrderIterator of unixfs/src/dir/builder/iter.rs: the iterative      *)
(* post-order traversal which renders the dag-pb directory nodes of a      *)
(* tree of DirBuilders.                                                    *)
(*                                                                         *)
(* Strings and byte vectors are sequences of byte values.  Option<T> is a  *)
(* sequence of length at most one.  HashMap and BTreeMap are functions;    *)
(* the iteration order of a HashMap is a nondeterministic choice, the      *)
(* iteration order of a BTreeMap<String, _> is the byte order of String.   *)
(* One step of the model is one iteration of the `while let` loop of       *)
(* next_borrowed; pc tells whether the caller is between two calls.        *)
(***************************************************************************)
EXTENDS Integers, Sequences, FiniteSets, TLC

VARIABLES
    full_path,        \* PostOrderIterator::full_path
    old_depth,        \* PostOrderIterator::old_depth
    block_buffer,     \* PostOrderIterator::block_buffer
    pending,          \* PostOrderIterator::pending, top of the stack last
    persisted_cids,   \* PostOrderIterator::persisted_cids
    reused_children,  \* PostOrderIterator::reused_children
    cid,              \* PostOrderIterator::cid
    total_size,       \* PostOrderIterator::total_size
    opts,             \* PostOrderIterator::opts
    root,             \* the DirBuilder handed to PostOrderIterator::new
    pc,               \* "idle" between calls of next_borrowed, "loop" inside one
    ret,              \* what the last finished call of next_borrowed returned
    emitted,          \* every Some(..) returned so far, with the id of its frame
    collected,        \* the local `collected` of the last Post frame, after extend
    panicked          \* an assert!, assert_eq! or todo! has fired

vars == <<full_path, old_depth, block_buffer, pending, persisted_cids,
          reused_children, cid, total_size, opts, root, pc, ret, emitted,
          collected, panicked>>

(***************************************************************************)
(* Bounds of the checked inputs.                                           *)
(***************************************************************************)
MaxEntries == 3    \* entries of the input tree: sub-directories and file leaves

(***************************************************************************)
(* Option, String order, maps.                                             *)
(***************************************************************************)
None == <<>>
Some(x) == <<x>>

Slash == 47

Min(a, b) == IF a < b THEN a ELSE b
Max(a, b) == IF a < b THEN b ELSE a

\* Ord for String: lexicographic on the bytes, a proper prefix is smaller.
StrLess(a, b) ==
    \/ /\ Len(a) < Len(b)
       /\ \A i \in 1..Len(a) : a[i] = b[i]
    \/ \E i \in 1..Min(Len(a), Len(b)) :
         /\ a[i] < b[i]
         /\ \A j \in 1..(i - 1) : a[j] = b[j]

EmptyMap == [k \in {} |-> 0]

MapInsert(m, k, v) == [x \in DOMAIN m \cup {k} |-> IF x = k THEN v ELSE m[x]]

\* Mutant: nothing is removed.
MapRemove_Keep(m, k) == m

MapRemove(m, k) == [x \in DOMAIN m \ {k} |-> m[x]]

\* Mutant: the keys in descending order.
BTreeIter_Descending(m) ==
    IF DOMAIN m = {} THEN <<>>
    ELSE CHOOSE s \in [1..Cardinality(DOMAIN m) -> DOMAIN m] :
           \A i, j \in 1..Cardinality(DOMAIN m) : i < j => StrLess(s[j], s[i])

\* BTreeMap::iter: the keys in ascending order.
BTreeIter(m) ==
    IF DOMAIN m = {} THEN <<>>
    ELSE CHOOSE s \in [1..Cardinality(DOMAIN m) -> DOMAIN m] :
           \A i, j \in 1..Cardinality(DOMAIN m) : i < j => StrLess(s[i], s[j])

\* The orders in which a HashMap may hand out its keys.
HashIterOrders(S) ==
    {s \in [1..Cardinality(S) -> S] :
        \A i, j \in 1..Cardinality(S) : i # j => s[i] # s[j]}

RECURSIVE SumSeq(_)
SumSeq(s) == IF s = <<>> THEN 0 ELSE s[1] + SumSeq(Tail(s))

(***************************************************************************)
(* Cid and the protobuf size functions.                                    *)
(***************************************************************************)
DagPb == 112          \* the codec of every CidV0
Sha2_256 == 18        \* multihash::Code::Sha2_256
DigestLen == 32       \* bytes of a Sha256 digest

\* A digest is not computed: Sha256 is taken to be injective, the digest of
\* a rendered block stands for the block, the digest of file k for k.
FileDigest(k) == [file |-> k, block |-> <<>>]
Sha256(data) == [file |-> 0, block |-> data]

CidV0(digest) == [version |-> 0, codec |-> DagPb, hash |-> digest]
CidV1(codec, digest) == [version |-> 1, codec |-> codec, hash |-> digest]

RECURSIVE sizeof_varint(_)
sizeof_varint(v) == IF v < 128 THEN 1 ELSE 1 + sizeof_varint(v \div 128)

sizeof_len(len) == sizeof_varint(len) + len

\* Cid::to_bytes: the multihash alone for a v0, version and codec first for a v1.
\* The last element stands for the DigestLen bytes of the digest.
to_bytes(c) ==
    IF c.version = 0 THEN <<Sha2_256, DigestLen, c.hash>>
    ELSE <<1, c.codec, Sha2_256, DigestLen, c.hash>>

\* link.to_bytes().len()
to_bytes_len(c) == Len(to_bytes(c)) - 1 + DigestLen

(***************************************************************************)
(* render_directory.  A rendered block is the sequence of the fields       *)
(* written, each a tag and its payload, in the order they are written.     *)
(***************************************************************************)
Leaf(link, size) == [link |-> link, total_size |-> size]

\* UnixFs { Type: Directory, ..Default::default() }: the Type field alone.
UnixFsDirectory == <<[tag |-> 8, val |-> 1]>>

UnixFs_get_size(data) == SumSeq([i \in 1..Len(data) |-> 1 + sizeof_varint(data[i].val)])

EntryAsPBLink_get_size(name, leaf) ==
    1 + sizeof_len(Len(name))
      + 1
      + sizeof_len(to_bytes_len(leaf.link))
      + 1
      + sizeof_varint(leaf.total_size)

EntryAsPBLink_write_message(name, leaf) ==
    << [tag |-> 10, val |-> to_bytes(leaf.link)],
       [tag |-> 18, val |-> name],
       [tag |-> 24, val |-> leaf.total_size] >>

BTreeMappedDir_get_size(links, data) ==
    LET keys == BTreeIter(links)
        sizes == [i \in 1..Len(keys) |->
                    1 + sizeof_len(EntryAsPBLink_get_size(keys[i], links[keys[i]]))]
    IN SumSeq(sizes) + 1 + sizeof_len(UnixFs_get_size(data))

BTreeMappedDir_write_message(links, data) ==
    LET keys == BTreeIter(links)
    IN [i \in 1..Len(keys) |->
          [tag |-> 18, msg |-> EntryAsPBLink_write_message(keys[i], links[keys[i]])]]
       \o << [tag |-> 10, msg |-> data] >>

\* Mutant: a block of exactly the limit is refused too.
TooLargeBlock_OrEqual(block_size_limit, size) ==
    /\ block_size_limit # None
    /\ block_size_limit[1] <= size

\* if let Some(limit) = block_size_limit { if *limit < size { return Err(..) } }
TooLargeBlock(block_size_limit, size) ==
    /\ block_size_limit # None
    /\ block_size_limit[1] < size

\* Mutant: the encoded sizes of the links are summed, not the total sizes.
combined_from_links_Encoded(links) ==
    LET keys == BTreeIter(links)
    IN SumSeq([i \in 1..Len(keys) |-> EntryAsPBLink_get_size(keys[i], links[keys[i]])])

combined_from_links(links) ==
    LET keys == BTreeIter(links)
    IN SumSeq([i \in 1..Len(keys) |-> links[keys[i]].total_size])

\* Mutant: the buffer is not truncated to the size of the message.
render_directory_NoTruncate(links, buffer, block_size_limit) ==
    LET size == BTreeMappedDir_get_size(links, UnixFsDirectory)
        extended == Max(buffer.len, size)
        written == [len |-> extended,
                    data |-> BTreeMappedDir_write_message(links, UnixFsDirectory)]
        link == CidV0(Sha256(written.data))
    IN IF TooLargeBlock(block_size_limit, size)
       THEN [err |-> Some(size), leaf |-> None, buffer |-> buffer]
       ELSE [err |-> None,
             leaf |-> Some(Leaf(link, written.len + combined_from_links(links))),
             buffer |-> written]

\* The buffer is a Vec<u8>: its length, and the fields its bytes hold.
render_directory(links, buffer, block_size_limit) ==
    LET size == BTreeMappedDir_get_size(links, UnixFsDirectory)
        \* buffer.extend(repeat(0).take(needed_zeroes))
        extended == Max(buffer.len, size)
        \* write_message, then buffer.truncate(size)
        written == [len |-> Min(extended, size),
                    data |-> BTreeMappedDir_write_message(links, UnixFsDirectory)]
        link == CidV0(Sha256(written.data))
    IN IF TooLargeBlock(block_size_limit, size)
       THEN [err |-> Some(size), leaf |-> None, buffer |-> buffer]
       ELSE [err |-> None,
             leaf |-> Some(Leaf(link, written.len + combined_from_links(links))),
             buffer |-> written]

(***************************************************************************)
(* update_full_path                                                        *)
(***************************************************************************)
\* Mutant: position, the first slash, for rposition.
rposition_slash_First(path) ==
    IF \E i \in 1..Len(path) : path[i] = Slash
    THEN Some(CHOOSE i \in 1..Len(path) :
                /\ path[i] = Slash
                /\ \A j \in 1..(i - 1) : path[j] # Slash)
    ELSE None

\* full_path.bytes().rposition(|ch| ch == b'/'), as a 1-based position.
rposition_slash(path) ==
    IF \E i \in 1..Len(path) : path[i] = Slash
    THEN Some(CHOOSE i \in 1..Len(path) :
                /\ path[i] = Slash
                /\ \A j \in (i + 1)..Len(path) : path[j] # Slash)
    ELSE None

\* The while loop: pop the last segment while old_depth >= depth.
RECURSIVE pop_segments(_, _, _)
pop_segments(path, old, depth) ==
    IF old >= depth /\ old > 0
    THEN LET slash_at == rposition_slash(path)
         IN IF slash_at # None
            THEN pop_segments(SubSeq(path, 1, slash_at[1] - 1), old - 1, depth)
            ELSE [full_path |-> path, old_depth |-> old, panic |-> TRUE]
    ELSE [full_path |-> path, old_depth |-> old, panic |-> FALSE]

\* Mutant: a slash is pushed before the name even when the path is empty.
push_name_SlashFirst(path, old, name) ==
    IF name # None
    THEN [full_path |-> path \o <<Slash>> \o name[1], old_depth |-> old + 1]
    ELSE [full_path |-> path, old_depth |-> old]

\* if let Some(name) = name { push a slash unless empty; push name; old_depth += 1 }
push_name(path, old, name) ==
    IF name # None
    THEN [full_path |-> path \o (IF path # <<>> THEN <<Slash>> ELSE <<>>) \o name[1],
          old_depth |-> old + 1]
    ELSE [full_path |-> path, old_depth |-> old]

update_full_path(path, old, name, depth) ==
    LET popped == IF depth < 2
                  THEN [full_path |-> <<>>, old_depth |-> 0, panic |-> FALSE]
                  ELSE pop_segments(path, old, depth)
        pushed == push_name(popped.full_path, popped.old_depth, name)
    IN [full_path |-> pushed.full_path,
        old_depth |-> pushed.old_depth,
        \* todo!() in the loop, or assert_eq!(*old_depth, depth)
        panic |-> popped.panic \/ pushed.old_depth # depth]

(***************************************************************************)
(* The inputs: the DirBuilder trees the tree builder hands over.  Ids are  *)
(* unique, a directory is created after its parent, the names of one       *)
(* directory are distinct (its nodes are a HashMap), no name is empty or   *)
(* holds a slash.                                                          *)
(***************************************************************************)
NameSeq == << <<97>>, <<97, 98>>, <<98>> >>          \* "a", "ab", "b"

LeafSeq == << Leaf(CidV0(FileDigest(1)), 3),
              Leaf(CidV1(85, FileDigest(2)), 200) >>

Limits == {None, Some(47)}

DirectoryEntry(node) == [kind |-> "Directory", node |-> node]
LeafEntry(leaf) == [kind |-> "Leaf", leaf |-> leaf]

\* The DirBuilder of directory 0 of the tree given by: parent[d], the parent
\* of directory d; nm[d], the index of its name; files, the file leaves as
\* triples <<directory, index of the name, index of the leaf>>.
BuildTree(n, parent, nm, files) ==
    LET RECURSIVE Build(_)
        Build(d) ==
            LET subdirs == {c \in 1..n : parent[c] = d}
                own == {i \in 1..Len(files) : files[i][1] = d}
                keys == {NameSeq[nm[c]] : c \in subdirs}
                          \cup {NameSeq[files[i][2]] : i \in own}
            IN [id |-> d,
                parent_id |-> IF d = 0 THEN None ELSE Some(parent[d]),
                nodes |-> [k \in keys |->
                    IF \E c \in subdirs : NameSeq[nm[c]] = k
                    THEN DirectoryEntry(Build(CHOOSE c \in subdirs : NameSeq[nm[c]] = k))
                    ELSE LeafEntry(LeafSeq[
                           files[CHOOSE i \in own : NameSeq[files[i][2]] = k][3]])]]
    IN Build(0)

InputTrees ==
    UNION {
      UNION {
        UNION {
          UNION {
            {BuildTree(n, parent, nm, files) :
               files \in {f \in [1..k -> (0..n) \X (1..Len(NameSeq)) \X (1..Len(LeafSeq))] :
                   /\ \A i \in 1..(k - 1) :
                        f[i][1] * Len(NameSeq) + f[i][2]
                          < f[i + 1][1] * Len(NameSeq) + f[i + 1][2]
                   /\ \A i \in 1..k : \A c \in 1..n :
                        ~(parent[c] = f[i][1] /\ nm[c] = f[i][2])}}
          : k \in 0..(MaxEntries - n)}
        : nm \in {m \in [1..n -> 1..Len(NameSeq)] :
                    \A c, e \in 1..n : (c # e /\ parent[c] = parent[e]) => m[c] # m[e]}}
      : parent \in {q \in [1..n -> 0..(n - 1)] : \A d \in 1..n : q[d] < d}}
    : n \in 0..MaxEntries}

(***************************************************************************)
(* PostOrderIterator::new                                                  *)
(***************************************************************************)
DescentFrame(node, name, depth) ==
    [type |-> "Descent", node |-> node, name |-> name, depth |-> depth]

PostFrame(parent_id, id, name, depth, leaves) ==
    [type |-> "Post", parent_id |-> parent_id, id |-> id, name |-> name,
     depth |-> depth, leaves |-> leaves]

EmptyBuffer == [len |-> 0, data |-> <<>>]

\* PostOrderIterator::new(root, opts), for a root among trees and opts among
\* options.
New(trees, options) ==
    /\ root \in trees
    /\ opts \in options
    /\ full_path = <<>>
    /\ old_depth = 0
    /\ block_buffer = EmptyBuffer
    /\ pending = <<DescentFrame(root, None, 0)>>
    /\ persisted_cids = EmptyMap
    /\ reused_children = <<>>
    /\ cid = None
    /\ total_size = 0
    /\ pc = "idle"
    /\ ret = None
    /\ emitted = <<>>
    /\ collected = EmptyMap
    /\ panicked = FALSE

Init == New(InputTrees, [wrap_with_directory : BOOLEAN, block_size_limit : Limits])

(***************************************************************************)
(* next_borrowed, one iteration of `while let Some(visited) = pending.pop()`*)
(***************************************************************************)
Top == pending[Len(pending)]
Popped == SubSeq(pending, 1, Len(pending) - 1)

Ok(node) == [ok |-> Some(node), err |-> None]
Err(size) == [ok |-> None, err |-> Some(size)]

\* Mutant: the length of the block is reported as the total size.
TreeNode_BlockLen(path, link, size, block) ==
    [path |-> path, cid |-> link, total_size |-> block.len, block |-> block]

TreeNode(path, link, size, block) ==
    [path |-> path, cid |-> link, total_size |-> size, block |-> block]

\* Mutant: the last sub-directory handed out gets no Descent frame.
ChildFrames_SkipLast(node, order, depth) ==
    LET IsDir(k) == node.nodes[k].kind = "Directory"
        dirs == SelectSeq(order, IsDir)
    IN [i \in 1..(Len(dirs) - 1) |->
          DescentFrame(node.nodes[dirs[i]].node, Some(dirs[i]), depth + 1)]

\* Mutant: the sub-directories get the depth of their parent.
ChildFrames_SameDepth(node, order, depth) ==
    LET IsDir(k) == node.nodes[k].kind = "Directory"
        dirs == SelectSeq(order, IsDir)
    IN [i \in 1..Len(dirs) |->
          DescentFrame(node.nodes[dirs[i]].node, Some(dirs[i]), depth)]

\* Mutant: every sub-directory is pushed under the name of the first one.
ChildFrames_FirstName(node, order, depth) ==
    LET IsDir(k) == node.nodes[k].kind = "Directory"
        dirs == SelectSeq(order, IsDir)
    IN [i \in 1..Len(dirs) |->
          DescentFrame(node.nodes[dirs[i]].node, Some(dirs[1]), depth + 1)]

\* for (k, v) in node.nodes: the sub-directories become Descent frames at
\* depth + 1, in the order the HashMap hands them out.
ChildFrames(node, order, depth) ==
    LET IsDir(k) == node.nodes[k].kind = "Directory"
        dirs == SelectSeq(order, IsDir)
    IN [i \in 1..Len(dirs) |->
          DescentFrame(node.nodes[dirs[i]].node, Some(dirs[i]), depth + 1)]

\* ... and the leaves are collected, in the same order.
CollectLeaves(node, order) ==
    LET IsLeaf(k) == node.nodes[k].kind = "Leaf"
        names == SelectSeq(order, IsLeaf)
    IN [i \in 1..Len(names) |-> <<names[i], node.nodes[names[i]].leaf>>]

\* Mutant: the leaves are merged only into an entry which is still empty.
Extend_OnlyIfEmpty(m, pairs) ==
    IF DOMAIN m # {} THEN m
    ELSE [k \in {pairs[i][1] : i \in 1..Len(pairs)} |->
            pairs[CHOOSE i \in 1..Len(pairs) : pairs[i][1] = k][2]]

\* BTreeMap::extend: insert the pairs one after the other.
RECURSIVE Extend(_, _)
Extend(m, pairs) ==
    IF pairs = <<>> THEN m
    ELSE Extend(MapInsert(m, pairs[1][1], pairs[1][2]), Tail(pairs))

\* Mutant: the entry of the parent is replaced, not inserted into.
Deposit_Replace(table, parent_id, name, leaf) ==
    [table |-> MapInsert(table, parent_id, MapInsert(EmptyMap, name, leaf)),
     previous |-> None]

\* Mutant: the Leaf of the finished directory is not put into the table.
Deposit_Dropped(table, parent_id, name, leaf) ==
    [table |-> table, previous |-> None]

\* persisted_cids.entry(parent_id).or_insert(collected).insert(name, leaf);
\* collected has been cleared before.
Deposit(table, parent_id, name, leaf) ==
    LET entry == IF parent_id \in DOMAIN table THEN table[parent_id] ELSE EmptyMap
    IN [table |-> MapInsert(table, parent_id, MapInsert(entry, name, leaf)),
        previous |-> IF name \in DOMAIN entry THEN Some(entry[name]) ELSE None]

\* Mutant: the root is rendered whatever the option says.
IsUnwrappedRoot_Never(wrap_with_directory, parent_id) == FALSE

\* Mutant: the negation of the option is lost.
IsUnwrappedRoot_NotNegated(wrap_with_directory, parent_id) ==
    wrap_with_directory /\ parent_id = None

\* if !self.opts.wrap_with_directory && parent_id.is_none()
IsUnwrappedRoot(wrap_with_directory, parent_id) ==
    ~wrap_with_directory /\ parent_id = None

\* Mutant: the Post frame is pushed after the children, so it is popped first.
PushFrames_PostOnTop(stack, post, children) == (stack \o children) \o <<post>>

\* self.pending.push(Visited::Post {..}); self.pending.extend(children.drain(..))
PushFrames(stack, post, children) == (stack \o <<post>>) \o children

Panic ==
    /\ panicked' = TRUE
    /\ pc' = "idle"
    /\ UNCHANGED <<block_buffer, persisted_cids, reused_children, cid, total_size,
                   opts, root, ret, emitted, collected>>

\* Visited::Descent
Descent ==
    /\ ~panicked
    /\ pending # <<>>
    /\ Top.type = "Descent"
    /\ LET visited == Top
           path == update_full_path(full_path, old_depth, visited.name, visited.depth)
       IN /\ full_path' = path.full_path
          /\ old_depth' = path.old_depth
          /\ IF path.panic
             THEN pending' = Popped /\ Panic
             ELSE \E order \in HashIterOrders(DOMAIN visited.node.nodes) :
                    LET children == reused_children
                                      \o ChildFrames(visited.node, order, visited.depth)
                        leaves == CollectLeaves(visited.node, order)
                        post == PostFrame(visited.node.parent_id, visited.node.id,
                                          visited.name, visited.depth, leaves)
                    IN /\ pending' = PushFrames(Popped, post, children)
                       /\ reused_children' = <<>>
                       /\ pc' = "loop"
                       /\ UNCHANGED <<block_buffer, persisted_cids, cid, total_size,
                                      opts, root, ret, emitted, collected, panicked>>

\* Visited::Post
Post ==
    /\ ~panicked
    /\ pending # <<>>
    /\ Top.type = "Post"
    /\ LET visited == Top
           taken == IF Some(visited.id) \in DOMAIN persisted_cids
                    THEN persisted_cids[Some(visited.id)] ELSE EmptyMap
           table == MapRemove(persisted_cids, Some(visited.id))
       IN \* each of the three is computed once
          \E path \in {update_full_path(full_path, old_depth, visited.name,
                                        visited.depth)} :
          \E merged \in {Extend(taken, visited.leaves)} :
          \E rendered \in {render_directory(merged, block_buffer,
                                            opts.block_size_limit)} :
          LET leaf == rendered.leaf[1]
              deposit == Deposit(table, visited.parent_id, visited.name[1], leaf)
          IN
          /\ full_path' = path.full_path
          /\ old_depth' = path.old_depth
          /\ pending' = Popped
          /\ IF path.panic
             THEN Panic
             ELSE IF IsUnwrappedRoot(opts.wrap_with_directory, visited.parent_id)
             THEN \* assert_eq!(collected.len(), 1, ..); return None
                  /\ persisted_cids' = table
                  /\ collected' = merged
                  /\ panicked' = (Cardinality(DOMAIN merged) # 1)
                  /\ ret' = IF Cardinality(DOMAIN merged) # 1 THEN ret ELSE None
                  /\ pc' = "idle"
                  /\ UNCHANGED <<block_buffer, reused_children, cid, total_size,
                                 opts, root, emitted>>
             ELSE IF rendered.err # None
             THEN \* Err(e) => return Some(Err(e))
                  /\ persisted_cids' = table
                  /\ collected' = merged
                  /\ ret' = Some(Err(rendered.err[1]))
                  /\ emitted' = Append(emitted, [id |-> visited.id,
                                                 result |-> Err(rendered.err[1])])
                  /\ pc' = "idle"
                  /\ UNCHANGED <<block_buffer, reused_children, cid, total_size,
                                 opts, root, panicked>>
             ELSE /\ block_buffer' = rendered.buffer
                  /\ cid' = Some(leaf.link)
                  /\ total_size' = leaf.total_size
                  /\ collected' = merged
                  /\ pc' = "idle"
                  /\ UNCHANGED <<reused_children, opts, root>>
                  /\ IF visited.name # None
                     THEN \* assert!(previous.is_none())
                          /\ persisted_cids' = deposit.table
                          /\ panicked' = (deposit.previous # None)
                     ELSE /\ persisted_cids' = table
                          /\ panicked' = FALSE
                  /\ IF visited.name # None /\ deposit.previous # None
                     THEN UNCHANGED <<ret, emitted>>
                     ELSE LET node == TreeNode(path.full_path, leaf.link,
                                               leaf.total_size, rendered.buffer)
                          IN /\ ret' = Some(Ok(node))
                             /\ emitted' = Append(emitted, [id |-> visited.id,
                                                            result |-> Ok(node)])

\* The stack is empty: the loop is not entered, None is returned.
Exhausted ==
    /\ ~panicked
    /\ pending = <<>>
    /\ ret' = None
    /\ pc' = "idle"
    /\ UNCHANGED <<full_path, old_depth, block_buffer, pending, persisted_cids,
                   reused_children, cid, total_size, opts, root, emitted,
                   collected, panicked>>

Next == Descent \/ Post \/ Exhausted

Spec == Init /\ [][Next]_vars

(***************************************************************************)
(* The input tree, as the properties read it.                              *)
(***************************************************************************)
JoinPath(path, name) == IF path = <<>> THEN name ELSE (path \o <<Slash>>) \o name

SubDirNames(node) == {k \in DOMAIN node.nodes : node.nodes[k].kind = "Directory"}
FileNames(node) == {k \in DOMAIN node.nodes : node.nodes[k].kind = "Leaf"}

\* Every directory under node: its DirBuilder, the slash-joined names leading
\* to it, its depth and the ids of the directories above it.
RECURSIVE DirsUnder(_, _, _, _)
DirsUnder(node, path, depth, above) ==
    {[id |-> node.id, node |-> node, path |-> path, depth |-> depth, above |-> above]}
      \cup UNION {DirsUnder(node.nodes[k].node, JoinPath(path, k), depth + 1,
                            above \cup {node.id}) : k \in SubDirNames(node)}

TreeDirs == DirsUnder(root, <<>>, 0, {})
DirOf(id) == CHOOSE d \in TreeDirs : d.id = id

IsOk(i) == emitted[i].result.ok # None
IsErr(i) == emitted[i].result.err # None
NodeAt(i) == emitted[i].result.ok[1]
NoErrBefore(i) == \A j \in 1..(i - 1) : IsOk(j)
NoErr == \A j \in 1..Len(emitted) : IsOk(j)

\* C1: post-order. A directory's node comes strictly after the node of every
\* directory below it: none of them comes later, and as long as no error has
\* been returned all of them have come before. Nothing follows the root.
C1_PostOrder ==
    \A i \in 1..Len(emitted) :
       /\ \A j \in 1..Len(emitted) :
            emitted[i].id \in DirOf(emitted[j].id).above => j < i
       /\ (IsOk(i) /\ NoErrBefore(i)) =>
             \A d \in TreeDirs :
                emitted[i].id \in d.above =>
                   \E j \in 1..(i - 1) : IsOk(j) /\ emitted[j].id = d.id
       /\ emitted[i].id = root.id => i = Len(emitted)

\* Three nested directories have been emitted, the innermost first.
C1_Witness ==
    /\ Len(emitted) = 3
    /\ NoErr
    /\ emitted[3].id \in DirOf(emitted[2].id).above
    /\ emitted[2].id \in DirOf(emitted[1].id).above

\* C2: an error ends the sequence: whatever next_borrowed returns after it
\* has returned Some(Err(..)) is None, so that the error is the last item.
C2_ErrorIsLast ==
    \A i \in 1..Len(emitted) : IsErr(i) => i = Len(emitted)

\* C3: a rendered directory links each sub-directory, under its name, with
\* the cid and total_size of the node emitted for it, and each file leaf,
\* under its name, with the leaf's own cid and size. While no error has been
\* returned the node of every sub-directory has been emitted.
LinkOf(block, name) ==
    LET at == {i \in 1..(Len(block.data) - 1) : block.data[i].msg[2].val = name}
    IN IF at = {} THEN None ELSE Some(block.data[CHOOSE i \in at : TRUE].msg)

IsLinkTo(link, leaf) ==
    /\ link # None
    /\ link[1][1].val = to_bytes(leaf.link)
    /\ link[1][3].val = leaf.total_size

C3_ParentLinksChildren ==
    \A i \in 1..Len(emitted) :
       IsOk(i) =>
          LET dir == DirOf(emitted[i].id).node
              block == NodeAt(i).block
          IN /\ \A n \in FileNames(dir) :
                  IsLinkTo(LinkOf(block, n), dir.nodes[n].leaf)
             /\ \A n \in SubDirNames(dir) :
                  /\ NoErrBefore(i) =>
                        \E j \in 1..(i - 1) : emitted[j].id = dir.nodes[n].node.id
                  /\ \A j \in 1..Len(emitted) :
                        (IsOk(j) /\ emitted[j].id = dir.nodes[n].node.id) =>
                            IsLinkTo(LinkOf(block, n),
                                     Leaf(NodeAt(j).cid, NodeAt(j).total_size))

\* A directory holding a file leaf and a sub-directory has been emitted after
\* the node of the sub-directory.
C3_Witness ==
    \E i \in 1..Len(emitted) :
       /\ IsOk(i)
       /\ FileNames(DirOf(emitted[i].id).node) # {}
       /\ \E n \in SubDirNames(DirOf(emitted[i].id).node) :
             \E j \in 1..(i - 1) :
                IsOk(j) /\ emitted[j].id = DirOf(emitted[i].id).node.nodes[n].node.id

\* C4: the total_size of an emitted node is the length of its block plus the
\* sizes of its file leaves plus the total_size of the nodes emitted for its
\* sub-directories; and the total_size of a root emitted without an error
\* before it is the sum of the lengths of all blocks and of the sizes of all
\* file leaves.
RECURSIVE SumFn(_, _)
SumFn(f, S) ==
    IF S = {} THEN 0
    ELSE LET x == CHOOSE y \in S : TRUE IN f[x] + SumFn(f, S \ {x})

FileSizes(node) == SumFn([n \in FileNames(node) |-> node.nodes[n].leaf.total_size],
                         FileNames(node))

EmittedSize(id) ==
    SumSeq([j \in 1..Len(emitted) |->
              IF IsOk(j) /\ emitted[j].id = id THEN NodeAt(j).total_size ELSE 0])

SubDirSizes(node) ==
    SumFn([n \in SubDirNames(node) |-> EmittedSize(node.nodes[n].node.id)],
          SubDirNames(node))

C4_CumulativeSize ==
    \A i \in 1..Len(emitted) :
       IsOk(i) =>
          LET dir == DirOf(emitted[i].id).node
              node == NodeAt(i)
          IN /\ node.total_size = node.block.len + FileSizes(dir) + SubDirSizes(dir)
             /\ (emitted[i].id = root.id /\ NoErrBefore(i)) =>
                   node.total_size =
                      SumSeq([j \in 1..i |-> NodeAt(j).block.len])
                        + SumFn([d \in TreeDirs |-> FileSizes(d.node)], TreeDirs)

\* The root has been emitted after a sub-directory, and file leaves count.
C4_Witness ==
    /\ Len(emitted) >= 2
    /\ NoErr
    /\ emitted[Len(emitted)].id = root.id
    /\ SumFn([d \in TreeDirs |-> FileSizes(d.node)], TreeDirs) > 0

Finished == pending = <<>> /\ pc = "idle"
Last == emitted[Len(emitted)]

\* C5: without wrap_with_directory, a root holding one file leaf and nothing
\* else: no item is ever returned, the call which pops the root's Post frame
\* returns None without a panic, and the mapping merged for the root then
\* holds that leaf alone, with its cid and size.
RootSoleFile == Cardinality(DOMAIN root.nodes) = 1 /\ FileNames(root) # {}

C5_UnwrapFileLeaf ==
    (~opts.wrap_with_directory /\ RootSoleFile) =>
        /\ emitted = <<>>
        /\ ~panicked
        /\ Finished =>
              /\ ret = None
              /\ collected = [n \in FileNames(root) |-> root.nodes[n].leaf]

C5_Witness ==
    /\ ~opts.wrap_with_directory
    /\ RootSoleFile
    /\ Finished

\* C6: without wrap_with_directory, a root holding one directory D and
\* nothing else: no node is ever emitted for the root; when the traversal has
\* ended with no error returned, it has ended with None and without a panic,
\* the last node emitted is the node of D, and the mapping merged for the
\* root holds one entry, the name of D with the cid and total_size of that
\* node.
RootSoleDir == Cardinality(DOMAIN root.nodes) = 1 /\ SubDirNames(root) # {}

C6_UnwrapDirectory ==
    (~opts.wrap_with_directory /\ RootSoleDir) =>
        /\ \A i \in 1..Len(emitted) : emitted[i].id # root.id
        /\ (Finished /\ NoErr) =>
              /\ ~panicked
              /\ ret = None
              /\ emitted # <<>>
              /\ \A n \in SubDirNames(root) :
                    /\ Last.id = root.nodes[n].node.id
                    /\ collected = (n :> Leaf(Last.result.ok[1].cid,
                                              Last.result.ok[1].total_size))

C6_Witness ==
    /\ ~opts.wrap_with_directory
    /\ RootSoleDir
    /\ Finished
    /\ NoErr
    /\ Len(emitted) >= 2

\* C7: the node of a directory is a function of the input tree alone: as long
\* as no error has been returned, every node emitted, in whatever order the
\* sub-directories were pushed, is the node obtained by rendering the
\* directory from its file leaves and from the nodes so obtained for its
\* sub-directories; and so is the mapping merged for an unwrapped root.
RECURSIVE RefRender(_)
RefCollected(node) ==
    [n \in DOMAIN node.nodes |->
        IF node.nodes[n].kind = "Leaf" THEN node.nodes[n].leaf
        ELSE RefRender(node.nodes[n].node).leaf[1]]
RefRender(node) == render_directory(RefCollected(node), EmptyBuffer, None)

RefNode(id) ==
    LET dir == DirOf(id)
        rendered == RefRender(dir.node)
    IN TreeNode(dir.path, rendered.leaf[1].link, rendered.leaf[1].total_size,
                rendered.buffer)

C7_SiblingOrderIrrelevant ==
    /\ \A i \in 1..Len(emitted) :
          (IsOk(i) /\ NoErrBefore(i)) => NodeAt(i) = RefNode(emitted[i].id)
    /\ (~opts.wrap_with_directory /\ Finished /\ NoErr /\ ~panicked) =>
          collected = RefCollected(root)

\* Two sibling directories have been emitted, the greater name first, and
\* then their parent.
C7_Witness ==
    /\ Len(emitted) = 3
    /\ NoErr
    /\ DirOf(emitted[1].id).above = DirOf(emitted[2].id).above
    /\ emitted[3].id \in DirOf(emitted[1].id).above
    /\ StrLess(NodeAt(2).path, NodeAt(1).path)

\* C8: a call which renders returns Err exactly when a limit is set and the
\* encoded size of the merged mapping is greater than it, and the error
\* carries that size; otherwise it returns the node, whose block has that
\* size. No error is ever returned without a limit.
C8_SizeLimitDecision ==
    /\ (~panicked /\ ret # None) =>
          LET size == BTreeMappedDir_get_size(collected, UnixFsDirectory)
              limit == opts.block_size_limit
          IN /\ ret[1].err # None <=> (limit # None /\ size > limit[1])
             /\ ret[1].err # None => ret[1].err[1] = size
             /\ ret[1].ok # None => /\ ret[1].ok[1].block.len = size
                                    /\ Last.result = ret[1]
    /\ \A i \in 1..Len(emitted) :
          IsErr(i) => /\ opts.block_size_limit # None
                      /\ emitted[i].result.err[1] > opts.block_size_limit[1]

\* A directory whose encoded size is exactly the limit has been emitted.
C8_Witness ==
    /\ ~panicked
    /\ ret # None
    /\ ret[1].ok # None
    /\ opts.block_size_limit = Some(ret[1].ok[1].block.len)

\* C9: in every block emitted the links come first, in strictly ascending
\* order of their names, and the UnixFs data field comes last.
LinkName(field) == field.msg[2].val

C9_NameOrdering ==
    \A i \in 1..Len(emitted) :
       IsOk(i) =>
          LET data == NodeAt(i).block.data
          IN /\ Len(data) = Cardinality(DOMAIN DirOf(emitted[i].id).node.nodes) + 1
                  \/ ~NoErrBefore(i)
             /\ data[Len(data)] = [tag |-> 10, msg |-> UnixFsDirectory]
             /\ \A a \in 1..(Len(data) - 1) : data[a].tag = 18
             /\ \A a, b \in 1..(Len(data) - 1) :
                   a < b => StrLess(LinkName(data[a]), LinkName(data[b]))

\* A directory has been emitted whose sub-directories finished in descending
\* order of their names, and which holds a file leaf as well.
C9_Witness ==
    /\ Len(emitted) = 3
    /\ NoErr
    /\ DirOf(emitted[1].id).above = DirOf(emitted[2].id).above
    /\ emitted[3].id \in DirOf(emitted[1].id).above
    /\ StrLess(NodeAt(2).path, NodeAt(1).path)
    /\ Len(NodeAt(3).block.data) = 4

\* C10: after a frame has been popped and the path updated, full_path is the
\* slash-joined names from the root down to the directory of the frame, and
\* old_depth its depth; the path of every node emitted is the path of its
\* directory, the empty path for the root.
TopmostPost ==
    pending[CHOOSE i \in 1..Len(pending) :
              /\ pending[i].type = "Post"
              /\ \A j \in (i + 1)..Len(pending) : pending[j].type = "Descent"]

C10_PathReconstruction ==
    /\ (pc = "loop" /\ ~panicked) =>
          /\ full_path = DirOf(TopmostPost.id).path
          /\ old_depth = DirOf(TopmostPost.id).depth
    /\ (pc = "idle" /\ ~panicked /\ ret # None) =>
          /\ full_path = DirOf(Last.id).path
          /\ old_depth = DirOf(Last.id).depth
    /\ \A i \in 1..Len(emitted) :
          IsOk(i) =>
             /\ NodeAt(i).path = DirOf(emitted[i].id).path
             /\ emitted[i].id = root.id => NodeAt(i).path = <<>>

\* The path of a directory at depth 2 has been rebuilt after the node of its
\* sub-directory at depth 3 was emitted.
C10_Witness ==
    /\ Len(emitted) = 2
    /\ NoErr
    /\ DirOf(emitted[1].id).depth = 3
    /\ DirOf(emitted[2].id).depth = 2
    /\ full_path = NodeAt(2).path

(***************************************************************************)
(* The tree {a: {x: leaf}, b: leaf}, for any two leaves.                   *)
(***************************************************************************)
ExampleLeaves == LeafSeq \o <<Leaf(CidV0(FileDigest(3)), 0)>>

ExampleTrees ==
    {[id |-> 0, parent_id |-> None,
      nodes |-> (<<97>> :> DirectoryEntry([id |-> 1, parent_id |-> Some(0),
                                           nodes |-> (<<120>> :> LeafEntry(ExampleLeaves[x]))])
                 @@ <<98>> :> LeafEntry(ExampleLeaves[b]))] :
        x \in 1..Len(ExampleLeaves), b \in 1..Len(ExampleLeaves)}

InitExample ==
    New(ExampleTrees, [wrap_with_directory : BOOLEAN, block_size_limit : Limits])

SpecExample == InitExample /\ [][Next]_vars

RootEmitted == emitted # <<>> /\ NoErr /\ Last.id = root.id
EmittedPaths == [i \in 1..Len(emitted) |-> NodeAt(i).path]

\* C11 as stated: for the tree {a: {x: leaf}, b: leaf}, once the root has
\* been emitted the paths emitted are a/x, a and the empty path.
C11_PathsWithLeaf ==
    RootEmitted => EmittedPaths = << <<97, Slash, 120>>, <<97>>, <<>> >>

\* C11, amended: for the tree {a: {x: leaf}, b: leaf}, once the root has been
\* emitted the paths emitted are a and the empty path: x is a file leaf, and
\* no node is emitted for a file leaf.
C11_PathsOfDirectories ==
    RootEmitted => EmittedPaths = << <<97>>, <<>> >>

C11_Witness ==
    /\ RootEmitted
    /\ DOMAIN root.nodes = {<<97>>, <<98>>}
    /\ NodeAt(1).block.data[1].msg[2].val = <<120>>

SoleDirName == CHOOSE n \in SubDirNames(root) : TRUE
SoleDirId == root.nodes[SoleDirName].node.id

\* C12 as stated: with wrap_with_directory=false and a directory as the
\* root's single entry, the node emitted for that entry carries the empty
\* path.
C12_EmptyPath ==
    (~opts.wrap_with_directory /\ RootSoleDir) =>
        \A i \in 1..Len(emitted) :
            (IsOk(i) /\ emitted[i].id = SoleDirId) => NodeAt(i).path = <<>>

\* C12, amended: with wrap_with_directory=false and a directory as the root's
\* single entry, the node emitted for that entry carries the entry's name as
\* its path (its frame has depth 1 and its name), never the empty path; and
\* when the traversal completes without error that node is the last one
\* emitted.
C12_EntryName ==
    (~opts.wrap_with_directory /\ RootSoleDir) =>
        /\ \A i \in 1..Len(emitted) :
              (IsOk(i) /\ emitted[i].id = SoleDirId) =>
                  /\ NodeAt(i).path = SoleDirName
                  /\ NodeAt(i).path # <<>>
        /\ (Finished /\ NoErr) =>
              /\ emitted # <<>>
              /\ Last.id = SoleDirId

C12_Witness ==
    /\ ~opts.wrap_with_directory
    /\ RootSoleDir
    /\ Finished
    /\ NoErr
    /\ emitted # <<>>
    /\ Last.id = SoleDirId
    /\ NodeAt(Len(emitted)).path = SoleDirName

(***************************************************************************)
(* Block size limits around the size of the block of an empty directory.   *)
(***************************************************************************)
EmptyDirSize == BTreeMappedDir_get_size(EmptyMap, UnixFsDirectory)
EmptyDirBlock ==
    [len |-> EmptyDirSize, data |-> << [tag |-> 10, msg |-> UnixFsDirectory] >>]
SmallLimits == {None, Some(EmptyDirSize - 1), Some(EmptyDirSize)}

InitSmallLimit ==
    New(InputTrees, [wrap_with_directory : BOOLEAN, block_size_limit : SmallLimits])

SpecSmallLimit == InitSmallLimit /\ [][Next]_vars

\* The Post frame of directory d has been popped: neither it nor the Descent
\* frame of d or of a directory above d is on the stack.
Processed(d) ==
    \A k \in 1..Len(pending) :
        IF pending[k].type = "Descent"
        THEN pending[k].node.id \notin (d.above \cup {d.id})
        ELSE pending[k].id # d.id

EmptyDirs == {d \in TreeDirs : DOMAIN d.node.nodes = {}}
EmittedAt(id) == {i \in 1..Len(emitted) : emitted[i].id = id}
IsEmptyDirNode(n) ==
    /\ n.block = EmptyDirBlock
    /\ n.total_size = n.block.len
    /\ n.cid = CidV0(Sha256(EmptyDirBlock.data))

\* C13 as stated: every directory with no children is rendered and emitted as
\* a node with zero links and only the directory metadata field, with
\* total_size equal to the block length and the same block and cid as any
\* other empty directory.
C13_EmptyDirAlwaysEmitted ==
    \A d \in EmptyDirs :
        Processed(d) =>
            \E i \in EmittedAt(d.id) : IsOk(i) /\ IsEmptyDirNode(NodeAt(i))

\* C13, amended: when the Post frame of a directory with no children has been
\* processed, then: if it is the root and wrap_with_directory is false, the
\* traversal has aborted and no node was emitted for it; if the block size
\* limit is below the size of the block of an empty directory, the error
\* TooLargeBlock of that size was returned for it; in every other case exactly
\* one node was emitted for it, with zero links and only the directory
\* metadata field, total_size equal to the block length, and the same block
\* and cid as every other empty directory whatever its name, id or depth.
C13_EmptyDirectory ==
    \A d \in EmptyDirs :
        Processed(d) =>
            IF IsUnwrappedRoot(opts.wrap_with_directory, d.node.parent_id)
            THEN panicked /\ EmittedAt(d.id) = {}
            ELSE /\ Cardinality(EmittedAt(d.id)) = 1
                 /\ \A i \in EmittedAt(d.id) :
                       IF TooLargeBlock(opts.block_size_limit, EmptyDirSize)
                       THEN emitted[i].result = Err(EmptyDirSize)
                       ELSE /\ IsOk(i)
                            /\ IsEmptyDirNode(NodeAt(i))
                            /\ Len(NodeAt(i).block.data) = 1
                            /\ \A e \in EmptyDirs : \A j \in EmittedAt(e.id) :
                                  IsOk(j) =>
                                      /\ NodeAt(j).block = NodeAt(i).block
                                      /\ NodeAt(j).cid = NodeAt(i).cid

\* Two empty directories at different depths under different names have been
\* emitted, the second one after a directory with a longer block.
C13_Witness ==
    \E d, e \in EmptyDirs :
        /\ d.depth # e.depth
        /\ d.path # e.path
        /\ Processed(d)
        /\ Processed(e)
        /\ \A i \in EmittedAt(d.id) \cup EmittedAt(e.id) : IsOk(i)
        /\ \E i \in EmittedAt(e.id) : \E j \in 1..(i - 1) :
              IsOk(j) /\ NodeAt(j).block.len > EmptyDirSize

(***************************************************************************)
(* The caller keeps calling next: wrapping enabled, no size limit.         *)
(***************************************************************************)
InitWrapped ==
    New(InputTrees, [wrap_with_directory : {TRUE}, block_size_limit : {None}])

SpecRepeatedCalls == InitWrapped /\ [][Next]_vars /\ WF_vars(Next)

EmittedOnce(d) ==
    /\ Cardinality(EmittedAt(d.id)) = 1
    /\ \A i \in EmittedAt(d.id) : IsOk(i)

\* C14: with wrapping enabled and no size limit, repeated calls eventually
\* reach the empty stack between calls; no directory is ever emitted twice,
\* and once the stack is empty every directory of the tree, root included,
\* has been emitted exactly once; from then on every call returns
\* end-of-sequence, emits nothing and leaves the stack empty.
C14_FiniteOneShot ==
    /\ <>(Finished /\ ret = None)
    /\ [](~panicked /\ \A d \in TreeDirs : Cardinality(EmittedAt(d.id)) <= 1)
    /\ [](pending = <<>> => \A d \in TreeDirs : EmittedOnce(d))
    /\ [][Finished => (Finished' /\ emitted' = emitted /\ ret' = None)]_vars

\* The end of sequence has been returned after the nodes of three
\* directories.
C14_Witness ==
    /\ opts.wrap_with_directory
    /\ opts.block_size_limit = None
    /\ Finished
    /\ ret = None
    /\ Cardinality(TreeDirs) = MaxEntries
    /\ \A d \in TreeDirs : EmittedOnce(d)

\* The directory a frame belongs to.
FrameId(frame) == IF frame.type = "Descent" THEN frame.node.id ELSE frame.id

\* The merged mapping of directory dir is complete: one entry per child, a
\* file leaf under its name with its Leaf, a sub-directory under its name
\* with the cid and total_size of the node emitted for it.
ChildrenComplete(dir, merged) ==
    /\ DOMAIN merged = DOMAIN dir.nodes
    /\ \A n \in FileNames(dir) : merged[n] = dir.nodes[n].leaf
    /\ \A n \in SubDirNames(dir) :
          \E i \in EmittedAt(dir.nodes[n].node.id) :
              /\ IsOk(i)
              /\ merged[n] = Leaf(NodeAt(i).cid, NodeAt(i).total_size)

\* C15: when no error has been returned and the Post frame of directory X is
\* processed, the mapping merged from X's entry of the table and the leaves
\* of the frame has exactly one entry per child of X in the input tree, and
\* no frame of a descendant of X is left on the stack.
C15_ChildrenComplete ==
    [][(pending # <<>> /\ Top.type = "Post" /\ ~panicked /\ NoErr) =>
          /\ ChildrenComplete(DirOf(Top.id).node, collected')
          /\ \A k \in 1..Len(pending') :
                Top.id \notin DirOf(FrameId(pending'[k])).above]_vars

\* The Post frame of a directory with a file leaf and a sub-directory has
\* just been processed, with frames of other directories still on the stack.
C15_Witness ==
    /\ pc = "idle"
    /\ ~panicked
    /\ NoErr
    /\ emitted # <<>>
    /\ pending # <<>>
    /\ FileNames(DirOf(Last.id).node) # {}
    /\ SubDirNames(DirOf(Last.id).node) # {}
    /\ ChildrenComplete(DirOf(Last.id).node, collected)

\* C16: every key of the propagation table is the id of a directory whose
\* Post frame is still on the stack; once the Post frame of a directory has
\* been processed the table has no entry for it; and when the stack is empty
\* the table is empty.
C16_PropagationTable ==
    /\ \A key \in DOMAIN persisted_cids :
          /\ key # None
          /\ \E k \in 1..Len(pending) :
                pending[k].type = "Post" /\ pending[k].id = key[1]
    /\ \A d \in TreeDirs : Processed(d) => Some(d.id) \notin DOMAIN persisted_cids
    /\ pending = <<>> => persisted_cids = EmptyMap

\* Between two calls the table holds the entries of two directories, after
\* two directories have been processed.
C16_Witness ==
    /\ pc = "idle"
    /\ ~panicked
    /\ NoErr
    /\ Cardinality(DOMAIN persisted_cids) = 2
    /\ Cardinality({d \in TreeDirs : Processed(d)}) = 2

(***************************************************************************)
(* Trees root {f: file, b: directory 1 {n: directory 2}} in which the      *)
(* parent_id of directory 2 is the id of directory 1 or the id of the      *)
(* root.  With the id of the root, directory 2 deposits its Leaf in the    *)
(* root's entry of the table, where n may be the name f of the file.       *)
(***************************************************************************)
MisparentedTrees ==
    {[id |-> 0, parent_id |-> None,
      nodes |-> (NameSeq[f] :> LeafEntry(LeafSeq[l])
                 @@ NameSeq[b] :>
                      DirectoryEntry(
                        [id |-> 1, parent_id |-> Some(0),
                         nodes |-> (NameSeq[n] :>
                                      DirectoryEntry([id |-> 2, parent_id |-> Some(p),
                                                      nodes |-> EmptyMap]))]))] :
        <<f, b, n, l, p>> \in {t \in (1..Len(NameSeq)) \X (1..Len(NameSeq))
                                       \X (1..Len(NameSeq)) \X (1..Len(LeafSeq))
                                       \X {0, 1} : t[1] # t[2]}}

InitMisparented ==
    New(MisparentedTrees, [wrap_with_directory : BOOLEAN, block_size_limit : Limits])

SpecMisparented == InitMisparented /\ [][Next]_vars

\* The names of the leaves of the Post frame on top of the stack which the
\* entry of its directory in the table holds already.
DuplicateNames ==
    IF pending # <<>> /\ Top.type = "Post" /\ Some(Top.id) \in DOMAIN persisted_cids
    THEN {Top.leaves[i][1] : i \in 1..Len(Top.leaves)}
            \cap DOMAIN persisted_cids[Some(Top.id)]
    ELSE {}

\* C17 as stated: when the Post frame of a directory merges a leaf whose name
\* the entry taken from the table holds already, the traversal aborts; the
\* existing entry is never replaced.
C17_DuplicateAborts ==
    [][(~panicked /\ DuplicateNames # {}) =>
          /\ panicked'
          /\ \A n \in DuplicateNames :
                \/ collected' = collected
                \/ collected'[n] = persisted_cids[Some(Top.id)][n]]_vars

RootDir == DirOf(root.id)

\* C18: with wrap_with_directory=false, once the root's Post frame has been
\* processed with a merged mapping of zero entries or of more than one, the
\* traversal has aborted: the call has not returned, and no later call can
\* return anything; with exactly one entry it has not aborted and the call
\* returned the end of the sequence.  No node is ever emitted for the root.
C18_RootEntryCount ==
    ~opts.wrap_with_directory =>
        /\ EmittedAt(root.id) = {}
        /\ Processed(RootDir) =>
              IF Cardinality(DOMAIN collected) # 1
              THEN /\ panicked
                   /\ ~ENABLED Next
              ELSE /\ ~panicked
                   /\ ret = None
                   /\ Finished

\* The root's Post frame was processed with two entries, one of them a
\* sub-directory whose node had been emitted.
C18_Witness ==
    /\ ~opts.wrap_with_directory
    /\ Processed(RootDir)
    /\ Cardinality(DOMAIN collected) = 2
    /\ panicked
    /\ emitted # <<>>
    /\ NoErr

\* What update_full_path does for the frame on top of the stack.
NextPath == update_full_path(full_path, old_depth, Top.name, Top.depth)

\* C19: for every frame about to be popped, update_full_path neither reaches
\* the branch where a segment must be popped from a path without a slash nor
\* fails its final assertion: it ends with the tracked depth equal to the
\* depth of the frame, and no traversal has aborted in it.
C19_PathTrackerSound ==
    /\ (pending # <<>> /\ ~panicked) =>
          /\ Top.depth >= 2 => ~pop_segments(full_path, old_depth, Top.depth).panic
          /\ ~NextPath.panic
          /\ NextPath.old_depth = Top.depth
    /\ panicked => IsUnwrappedRoot(opts.wrap_with_directory, None)

\* A frame of depth 2 is about to be popped after a frame of depth 3: a
\* segment has to be popped from a path of three.
C19_Witness ==
    /\ ~panicked
    /\ pending # <<>>
    /\ Top.type = "Post"
    /\ Top.depth = 2
    /\ old_depth = 3
    /\ Len(SelectSeq(full_path, LAMBDA b : b = Slash)) = 2

\* The entry of the table under which the frame on top of the stack will
\* insert its Leaf.
ParentEntry ==
    IF Top.parent_id \in DOMAIN persisted_cids
    THEN persisted_cids[Top.parent_id] ELSE EmptyMap

\* C20: whenever the Post frame of a named directory is about to be
\* processed, the entry of its parent in the table holds no Leaf under its
\* name, so the insertion finds no previous value; and the insertion has
\* never found one: whatever the table holds under the id of a directory
\* are Leaves of nodes emitted for sub-directories of that directory, under
\* their names.
C20_DepositNeverCollides ==
    /\ (pending # <<>> /\ ~panicked /\ Top.type = "Post" /\ Top.name # None) =>
          /\ Top.name[1] \notin DOMAIN ParentEntry
          /\ Deposit(MapRemove(persisted_cids, Some(Top.id)), Top.parent_id,
                     Top.name[1], Leaf(CidV0(FileDigest(0)), 0)).previous = None
    /\ \A key \in DOMAIN persisted_cids : \A n \in DOMAIN persisted_cids[key] :
          /\ key # None
          /\ n \in SubDirNames(DirOf(key[1]).node)
          /\ \E i \in EmittedAt(DirOf(key[1]).node.nodes[n].node.id) :
                /\ IsOk(i)
                /\ persisted_cids[key][n] = Leaf(NodeAt(i).cid, NodeAt(i).total_size)

\* The Post frame of a named directory is about to be processed while the
\* entry of its parent already holds the Leaf of a sibling.
C20_Witness ==
    /\ pending # <<>>
    /\ ~panicked
    /\ Top.type = "Post"
    /\ Top.name # None
    /\ DOMAIN ParentEntry # {}
    /\ Top.name[1] \notin DOMAIN ParentEntry

====
